---- MODULE Spec2Model ----
(***************************************************************************)
(* Model of the transport and session core of mega-rs:                     *)
(*   - HttpClient::send_requests for reqwest::Client (src/http/reqwest.rs) *)
(*   - ClientState, UserSession::decryption_context (src/http/mod.rs)      *)
(***************************************************************************)
EXTENDS Integers, Sequences, FiniteSets, TLC

(***************************************************************************)
(* Bounds of the model.                                                    *)
(***************************************************************************)
NumCalls == 2          \* send_requests calls sharing one ClientState
MaxRetries == 3        \* largest ClientState::max_retries explored
MaxReqs == 1           \* longest request batch
MaxArr == 2            \* longest result array the server replies with
MaxKeyLen == 2         \* longest node_key byte vector
MaxShareKeys == 2      \* longest cached share_keys vector

Calls == 1..NumCalls

(***************************************************************************)
(* Option<T>: None is the empty sequence, Some(x) the one-element one.     *)
(***************************************************************************)
None == <<>>
Some(x) == <<x>>
IsSome(o) == o # <<>>
Unwrap(o) == o[1]

Min(a, b) == IF a <= b THEN a ELSE b

RECURSIVE SeqsUpTo(_, _)
SeqsUpTo(S, n) ==
    IF n = 0 THEN {<<>>}
    ELSE LET shorter == SeqsUpTo(S, n - 1)
         IN  shorter \cup {Append(s, x) : s \in {t \in shorter : Len(t) = n - 1}, x \in S}

(***************************************************************************)
(* Result<T, Error> of send_requests.                                      *)
(***************************************************************************)
Ok(v) == [kind |-> "Ok", val |-> v, err |-> "", code |-> 0]
Err(e, c) == [kind |-> "Err", val |-> <<>>, err |-> e, code |-> c]
Pending == [kind |-> "Pending", val |-> <<>>, err |-> "", code |-> 0]

MaxRetriesReached == Err("MaxRetriesReached", 0)

(***************************************************************************)
(* crate::ErrorCode (defined outside src/): the codes the engine tells     *)
(* apart are OK, EAGAIN and every other one.                               *)
(***************************************************************************)
OK == 0
EINTERNAL == -1
EAGAIN == -3
ErrorCodes == {OK, EINTERNAL, EAGAIN}

(***************************************************************************)
(* HTTP statuses.  StatusCode::PAYMENT_REQUIRED is 402; the model also     *)
(* offers 200 (success), 304, 409 and 500.  error_for_status is Err        *)
(* exactly for the 4xx and 5xx statuses (is_client_error or                *)
(* is_server_error); every other status, 304 included, is passed on.       *)
(***************************************************************************)
PAYMENT_REQUIRED == 402
IsErrorStatus(status) == status \in 400..599

(***************************************************************************)
(* Requests and raw result values.  A request interprets its own slot of   *)
(* the result array (Request::parse_response_data, outside src/).          *)
(***************************************************************************)
RequestKinds == {"ReqA", "ReqB"}
Values == {"valA", "valB"}
Accepts(req, v) == (req = "ReqA" /\ v = "valA") \/ (req = "ReqB" /\ v = "valB")

parse_response_data(req, v) ==
    IF Accepts(req, v) THEN Ok([request |-> req, data |-> v])
    ELSE Err("Json", 0)

(***************************************************************************)
(* requests.iter().zip(responses).map(parse_response_data).collect()       *)
(* zip stops at the shorter of the two; collect into Result stops at the   *)
(* first Err.                                                              *)
(***************************************************************************)
Zip(reqs, resps) ==
    [i \in 1..Min(Len(reqs), Len(resps)) |-> <<reqs[i], resps[i]>>]

RECURSIVE CollectFrom(_, _, _)
CollectFrom(pairs, i, acc) ==
    IF i > Len(pairs) THEN Ok(acc)
    ELSE LET r == parse_response_data(pairs[i][1], pairs[i][2])
         IN  IF r.kind = "Err" THEN r
             ELSE CollectFrom(pairs, i + 1, Append(acc, r.val))

Collect(reqs, resps) == CollectFrom(Zip(reqs, resps), 1, <<>>)

(***************************************************************************)
(* x-hashcash response header.  utils::hashcash lives outside src/: a      *)
(* header is absent, present but unparseable, or carries (token, easiness).*)
(***************************************************************************)
NoHeader == [present |-> FALSE, wellformed |-> FALSE, token |-> "", easiness |-> 0]
GarbledHeader == [present |-> TRUE, wellformed |-> FALSE, token |-> "", easiness |-> 0]
ChallengeHeader(t, e) == [present |-> TRUE, wellformed |-> TRUE, token |-> t, easiness |-> e]
ValidHeaders == {ChallengeHeader("tokA", 1), ChallengeHeader("tokB", 2)}
Headers == {NoHeader, GarbledHeader} \cup ValidHeaders

\* response.headers().get("x-hashcash").and_then(parse_hashcash_header)
parse_hashcash_header(h) ==
    IF h.present /\ h.wellformed THEN Some(<<h.token, h.easiness>>) ELSE None

\* gencash(token, easiness): the proof-of-work stamp, a function of both.
gencash(token, easiness) == "stamp(" \o token \o "," \o ToString(easiness) \o ")"

\* format!("1:{token}:{stamp}")
HeaderValueSwapped(token, stamp) == "1:" \o stamp \o ":" \o token
HeaderValue(token, stamp) == "1:" \o token \o ":" \o stamp

(***************************************************************************)
(* Response bodies as JSON documents: an integer, an array of values, or   *)
(* anything else (an object, malformed text).                              *)
(***************************************************************************)
JInt(n) == [t |-> "int", n |-> n, a |-> <<>>]
JArr(a) == [t |-> "arr", n |-> 0, a |-> a]
JOther == [t |-> "other", n |-> 0, a |-> <<>>]
BodyInts == ErrorCodes \cup {7}
Bodies == {JInt(n) : n \in BodyInts} \cup {JArr(a) : a \in SeqsUpTo(Values, MaxArr)} \cup {JOther}

\* json::from_slice::<ErrorCode>: Some(code) for an integer that is a code.
ParseErrorCode(body) ==
    IF body.t = "int" /\ body.n \in ErrorCodes THEN Some(body.n) ELSE None

\* json::from_slice::<Vec<Value>>: Some(values) for an array.
ParseArray(body) == IF body.t = "arr" THEN Some(body.a) ELSE None

(***************************************************************************)
(* What one dispatch can come back with.  The reply arrives in two stages: *)
(* request_fut resolves with a network error, a timeout or the head of a   *)
(* response (status and headers), and ok.bytes() then reads the body or    *)
(* fails.  The field read tells how far the body is: "none" (never read),  *)
(* "pending" (being read), "failed" or "done".                             *)
(***************************************************************************)
Outcome(k, s, h, r, b) == [kind |-> k, status |-> s, header |-> h, read |-> r, body |-> b]
InFlight == Outcome("InFlight", 0, NoHeader, "none", JOther)
NetworkError == Outcome("NetworkError", 0, NoHeader, "none", JOther)
Timeout == Outcome("Timeout", 0, NoHeader, "none", JOther)
Response(s, h) == Outcome("Response", s, h, "none", JOther)

Responses ==
    {Response(402, h) : h \in Headers}
    \cup {Response(409, ChallengeHeader("tokA", 1))}
    \cup {Response(s, NoHeader) : s \in {200, 304, 500}}

\* tokio::time::timeout can only elapse when state.timeout is Some.
Outcomes(tmo) ==
    {NetworkError} \cup (IF IsSome(tmo) THEN {Timeout} ELSE {}) \cup Responses

\* ok.bytes().await: the whole body, or a reqwest error.
ReadFailure == [ok |-> FALSE, body |-> JOther]
BodyRead(b) == [ok |-> TRUE, body |-> b]
Reads == {ReadFailure} \cup {BodyRead(b) : b \in Bodies}

(***************************************************************************)
(* State.  ClientState is shared by every call; the rest is the local      *)
(* state of each send_requests call, and dc the one decryption_context     *)
(* call of the model.                                                      *)
(***************************************************************************)
VARIABLES
    origin,              \* ClientState::origin
    id_counter,          \* ClientState::id_counter
    max_retries,         \* ClientState::max_retries
    min_retry_delay,     \* ClientState::min_retry_delay
    max_retry_delay,     \* ClientState::max_retry_delay
    timeout,             \* ClientState::timeout, an Option
    session,             \* ClientState::session, an Option of UserSession
    pc,                  \* per call: the await the call is suspended at
    requests,            \* per call: the request batch
    query_params,        \* per call: the caller's query pairs
    url,                 \* per call: the URL every attempt is posted to
    attempt,             \* per call: the loop variable
    delay,               \* per call: the current backoff delay
    hashcash_challenge,  \* per call: Option<(token, easiness)>
    slept,               \* per call: the sleep taken in this iteration
    log,                 \* per call: one record per dispatch, in order
    result,              \* per call: what the call returned
    dc                   \* the decryption_context call: inputs and result

client_state == <<origin, id_counter, max_retries, min_retry_delay, max_retry_delay, timeout, session>>
call_state ==
    <<pc, requests, query_params, url, attempt, delay, hashcash_challenge, slept, log, result>>
vars == <<client_state, call_state, dc>>

(***************************************************************************)
(* The URL of a call (reqwest.rs 32-49).                                   *)
(***************************************************************************)
\* A Url: the path is the sequence of its segments (/api/v2/ is api, v2 and
\* an empty last segment; the path of a URL that cannot be a base is one
\* opaque segment), the query the sequence of its name-value pairs.
Url(scheme, host, path, query, fragment, cbb) ==
    [scheme |-> scheme, host |-> host, path |-> path, query |-> query,
     fragment |-> fragment, cannot_be_a_base |-> cbb]
DefaultOrigin == Url("https", "g.api.mega.co.nz", <<"">>, <<>>, None, FALSE)
PathOrigin ==
    Url("https", "host.example", <<"api", "v2", "">>, <<<<"y", "1">>>>, Some("z"), FALSE)
FileOrigin == Url("file", "", <<"C:", "dir", "x">>, <<>>, None, FALSE)
FileHostOrigin == Url("file", "server", <<"C:", "dir", "x">>, <<>>, None, FALSE)
FileShareOrigin == Url("file", "server", <<"share", "x">>, <<>>, None, FALSE)
OpaqueOrigin == Url("mailto", "", <<"mega">>, <<>>, None, TRUE)
NoUrl == Url("", "", <<>>, <<>>, None, FALSE)

\* A Windows drive letter as the url crate keeps it in a path: an ASCII
\* letter and a colon.
AsciiAlpha ==
    {"A", "B", "C", "D", "E", "F", "G", "H", "I", "J", "K", "L", "M",
     "N", "O", "P", "Q", "R", "S", "T", "U", "V", "W", "X", "Y", "Z",
     "a", "b", "c", "d", "e", "f", "g", "h", "i", "j", "k", "l", "m",
     "n", "o", "p", "q", "r", "s", "t", "u", "v", "w", "x", "y", "z"}
is_normalized_windows_drive_letter(segment) == \E a \in AsciiAlpha : segment = a \o ":"

\* The drive letter a file: base hands on to a reference that is an absolute
\* path: the first segment of its path, when that is a drive letter.
KeptDrive(base) ==
    IF /\ base.scheme = "file"
       /\ Len(base.path) >= 1
       /\ is_normalized_windows_drive_letter(base.path[1])
    THEN <<base.path[1]>>
    ELSE <<>>

\* The host of the joined URL: that of the base, except that a file: base
\* whose drive letter is kept hands on the drive letter and not its host.
KeptHost(base) == IF KeptDrive(base) # <<>> THEN "" ELSE base.host

\* state.origin.join("/cs"), segments being <<"cs">>: Url::join fails on a
\* URL that cannot be a base (one without a hierarchical path, such as
\* mailto:), and `?` returns that.  Otherwise the reference, an absolute
\* path, replaces the path of the base, after the drive letter of a file:
\* base, and the result has neither the query nor the fragment of the base.
Join(base, segments) ==
    IF base.cannot_be_a_base THEN Err("UrlParse", 0)
    ELSE Ok([base EXCEPT !.host = KeptHost(base),
                         !.path = KeptDrive(base) \o segments,
                         !.query = <<>>, !.fragment = None])

\* The reference of line 33, "/cs".
CsPath == <<"cs">>

\* qs.append_pair(name, value) and qs.extend_pairs(pairs)
AppendPair(u, name, value) == [u EXCEPT !.query = Append(@, <<name, value>>)]
ExtendPairs(u, pairs) == [u EXCEPT !.query = @ \o pairs]

\* Lines 35-45: the id, the session id if there is a session, then the
\* caller's pairs as they are.
BuildUrl(joined, id, sess, params) ==
    LET with_id == AppendPair(joined, "id", ToString(id))
        with_sid == IF IsSome(sess)
                    THEN AppendPair(with_id, "sid", Unwrap(sess).session_id)
                    ELSE with_id
    IN  ExtendPairs(with_sid, params)

\* The caller's query pairs: none, or a sid and an id of the caller's own.
QueryParams == {<<>>, <<<<"sid", "evil">>, <<"id", "0">>>>}

\* The values of the id parameters of a URL, and the one the call took from
\* id_counter (the first pair of the query).
IdParams(u) == {u.query[i][2] : i \in {j \in 1..Len(u.query) : u.query[j][1] = "id"}}
TakenId(u) == u.query[1][2]

(***************************************************************************)
(* The pieces of one loop iteration of send_requests.                      *)
(***************************************************************************)
\* state.id_counter.fetch_add(1, SeqCst): one atomic step; the value read is
\* the call's id.  (u64; the model never makes 2^64 calls.)
FetchAddLost(counter) == counter
FetchAddTwo(counter) == counter + 2
FetchAdd(counter) == counter + 1

\* for attempt in 1..=state.max_retries
InRangeExclusive(att, max) == att < max
InRange(att, max) == att <= max

\* if attempt > 1 && hashcash_challenge.is_none()
SleepsBeforeEveryRetry(att, challenge) == att > 1
Sleeps(att, challenge) == att > 1 /\ ~IsSome(challenge)

\* delay = min(delay * 2, state.max_retry_delay)
NextDelay(d, max_delay) == Min(d * 2, max_delay)

\* hashcash_challenge = None (line 76), once the proof header is attached.
AfterAttachKept(challenge) == challenge
AfterAttach(challenge) == None

\* The loop variable after `continue`: the for loop takes the next value
\* whatever the reason for continuing, a recorded challenge included.
AdvanceUnlessChallenge(att, challenge) == IF IsSome(challenge) THEN att ELSE att + 1
Advance(att, challenge) == att + 1

\* spawn_blocking(gencash).await: the stamp, or a JoinError when the worker
\* panicked or was cancelled.
JoinError == [kind |-> "JoinError", stamp |-> ""]
Stamp(s) == [kind |-> "Ok", stamp |-> s]
spawn_blocking(token, easiness) == {Stamp(gencash(token, easiness)), JoinError}

\* builder.header("x-hashcash", format!("1:{token}:{stamp}"))
ProofHeader(challenge, stamp) == Some(HeaderValue(Unwrap(challenge)[1], stamp))

\* json::to_string(&requests): Request's serializer is outside src/; the
\* batch always serializes.
to_string(reqs) == Ok(reqs)

Panic == [kind |-> "Panic", val |-> <<>>, err |-> "", code |-> 0]

Continue(challenge) == [next |-> "continue", challenge |-> challenge, result |-> Pending]
Return(r) == [next |-> "return", challenge |-> None, result |-> r]
AwaitBody == [next |-> "read", challenge |-> None, result |-> Pending]

\* status == PAYMENT_REQUIRED: a parseable challenge is recorded and the loop
\* continues; otherwise the call returns MaxRetriesReached at once.
OnPaymentRequiredRetry(header) == Continue(parse_hashcash_header(header))
OnPaymentRequiredForgets(header) ==
    IF IsSome(parse_hashcash_header(header)) THEN Continue(None) ELSE Return(MaxRetriesReached)
OnPaymentRequired(header) ==
    LET challenge == parse_hashcash_header(header)
    IN  IF IsSome(challenge) THEN Continue(challenge) ELSE Return(MaxRetriesReached)

\* The body is a bare ErrorCode: EAGAIN continues, any other code (OK too)
\* returns Err(Error::from(code)).
OnErrorCodeOkIsSuccess(code) ==
    IF code = EAGAIN THEN Continue(None)
    ELSE IF code = OK THEN Return(Ok(<<>>))
    ELSE Return(Err("MegaError", code))
OnErrorCode(code) ==
    IF code = EAGAIN THEN Continue(None) ELSE Return(Err("MegaError", code))

\* The body of a status that error_for_status lets through.
OnBodyRetriesUnparseable(body, reqs) ==
    LET code == ParseErrorCode(body)
        array == ParseArray(body)
    IN  IF IsSome(code) THEN OnErrorCode(Unwrap(code))
        ELSE IF IsSome(array) THEN Return(Collect(reqs, Unwrap(array)))
        ELSE Continue(None)
OnBody(body, reqs) ==
    LET code == ParseErrorCode(body)
        array == ParseArray(body)
    IN  IF IsSome(code) THEN OnErrorCode(Unwrap(code))
        ELSE IF IsSome(array) THEN Return(Collect(reqs, Unwrap(array)))
        ELSE Return(Err("Json", 0))

\* ok.bytes().await?: a failure while reading the body returns that error.
OnReadFailureRetry == Continue(None)
OnReadFailure == Return(Err("Reqwest", 0))

\* response.error_for_status() is Err: log and continue.
OnErrorStatus == Continue(None)

\* Lines 84-136: what the loop body does when request_fut resolves with o.
OnResponse(o) ==
    IF o.kind \in {"NetworkError", "Timeout"} THEN Continue(None)
    ELSE IF o.status = PAYMENT_REQUIRED THEN OnPaymentRequired(o.header)
    ELSE IF IsErrorStatus(o.status) THEN OnErrorStatus
    ELSE AwaitBody

\* Lines 127-158: what it does when ok.bytes() resolves with r.
OnRead(r, reqs) == IF r.ok THEN OnBody(r.body, reqs) ELSE OnReadFailure

\* Err(Error::MaxRetriesReached) after the loop.
ExhaustedResultOk == Ok(<<>>)
ExhaustedResult == MaxRetriesReached

(***************************************************************************)
(* UserSession and ShareKey (src/http/mod.rs).                             *)
(***************************************************************************)
Handles == {"A", "B"}
Keys == {"k1", "k2"}
ShareKey(h, k) == [handle |-> h, key |-> k]
ShareKeys == {ShareKey(h, k) : h \in Handles, k \in Keys}

UserSession(cached) ==
    [session_id |-> "sid", master_key |-> "mk", sek |-> "sek", private_key |-> "rsa",
     user_handle |-> "me", share_keys |-> cached]

\* Sessions as the request loop sees them: only session_id is read.
LoopSessions == {None, Some(UserSession(None))}

(***************************************************************************)
(* UserSession::decryption_context (src/http/mod.rs 38-65).                *)
(***************************************************************************)
\* node_key bytes: 'A', the two bytes of U+00E9, and 0xFF (never valid).
Bytes == {65, 195, 169, 255}

\* Longer encodings: U+20AC and U+FFFD (three bytes), U+1F496 (four bytes),
\* an overlong three-byte form, a surrogate, a truncated four-byte form and
\* a code point above U+10FFFF.
LongForms ==
    {<<226, 130, 172>>, <<239, 191, 189>>, <<240, 159, 146, 150>>,
     <<224, 128, 128>>, <<237, 160, 128>>, <<240, 159, 146>>, <<244, 144, 128, 128>>}

NodeKeys ==
    {None} \cup {Some(b) : b \in SeqsUpTo(Bytes, MaxKeyLen)} \cup {Some(b) : b \in LongForms}

IsContinuation(b) == b \in 128..191

\* String::from_utf8: Ok exactly for well-formed UTF-8 (one to four bytes a
\* character, no overlong form, no surrogate, nothing above U+10FFFF).
RECURSIVE IsValidUtf8From(_, _)
IsValidUtf8From(bytes, i) ==
    LET n == Len(bytes)
        b == bytes[i]
        Cont(j) == j <= n /\ IsContinuation(bytes[j])
        Second(lo, hi) == i + 1 <= n /\ bytes[i + 1] \in lo..hi
    IN  IF i > n THEN TRUE
        ELSE IF b < 128 THEN IsValidUtf8From(bytes, i + 1)
        ELSE IF b \in 194..223 THEN Cont(i + 1) /\ IsValidUtf8From(bytes, i + 2)
        ELSE IF b = 224 THEN Second(160, 191) /\ Cont(i + 2) /\ IsValidUtf8From(bytes, i + 3)
        ELSE IF b \in 225..236 \cup 238..239
             THEN Cont(i + 1) /\ Cont(i + 2) /\ IsValidUtf8From(bytes, i + 3)
        ELSE IF b = 237 THEN Second(128, 159) /\ Cont(i + 2) /\ IsValidUtf8From(bytes, i + 3)
        ELSE IF b = 240
             THEN Second(144, 191) /\ Cont(i + 2) /\ Cont(i + 3)
                  /\ IsValidUtf8From(bytes, i + 4)
        ELSE IF b \in 241..243
             THEN Cont(i + 1) /\ Cont(i + 2) /\ Cont(i + 3) /\ IsValidUtf8From(bytes, i + 4)
        ELSE IF b = 244
             THEN Second(128, 143) /\ Cont(i + 2) /\ Cont(i + 3)
                  /\ IsValidUtf8From(bytes, i + 4)
        ELSE FALSE

IsValidUtf8(bytes) == IsValidUtf8From(bytes, 1)

\* The characters (code points) of a well-formed byte string.
RECURSIVE DecodeUtf8From(_, _)
DecodeUtf8From(bytes, i) ==
    LET b == bytes[i]
        Low(j) == bytes[j] - 128
    IN  IF i > Len(bytes) THEN <<>>
        ELSE IF b < 128 THEN <<b>> \o DecodeUtf8From(bytes, i + 1)
        ELSE IF b < 224
             THEN <<(b - 192) * 64 + Low(i + 1)>> \o DecodeUtf8From(bytes, i + 2)
        ELSE IF b < 240
             THEN <<(b - 224) * 4096 + Low(i + 1) * 64 + Low(i + 2)>>
                  \o DecodeUtf8From(bytes, i + 3)
        ELSE <<(b - 240) * 262144 + Low(i + 1) * 4096 + Low(i + 2) * 64 + Low(i + 3)>>
             \o DecodeUtf8From(bytes, i + 4)

DecodeUtf8(bytes) == DecodeUtf8From(bytes, 1)

\* A HashMap<String, Vec<u8>> filled from a Vec<ShareKey>: a later entry
\* replaces an earlier one with the same handle.
MapOf(keys) ==
    [h \in {keys[i].handle : i \in 1..Len(keys)} |->
        keys[CHOOSE i \in 1..Len(keys) :
                /\ keys[i].handle = h
                /\ \A j \in 1..Len(keys) : keys[j].handle = h => j <= i].key]

EmptyMap == MapOf(<<>>)

Merge(m1, m2) ==
    [h \in DOMAIN m1 \cup DOMAIN m2 |-> IF h \in DOMAIN m2 THEN m2[h] ELSE m1[h]]

CachedMap(self) == IF IsSome(self.share_keys) THEN MapOf(Unwrap(self.share_keys)) ELSE EmptyMap

\* UserAttributesResponse: undecodable, or carrying share keys.
BadAttributes == [valid |-> FALSE, keys |-> <<>>]
Attributes(keys) == [valid |-> TRUE, keys |-> keys]
UserAttributes == {None, Some(BadAttributes), Some(Attributes(<<ShareKey("B", "k2")>>))}

\* utils::extract_share_keys (outside src/): the keys embedded in the
\* attributes, merged with those cached on the session; Err when the
\* attributes cannot be decoded.
extract_share_keys(self, user_attributes) ==
    IF user_attributes.valid
    THEN Ok(Merge(CachedMap(self), MapOf(user_attributes.keys)))
    ELSE Err("ShareKeyExtraction", 0)

DcOk(ctx) == [kind |-> "Ok", ctx |-> ctx, err |-> ""]
DcErr(e) == [kind |-> "Err", ctx |-> <<>>, err |-> e]
DcPanic == [kind |-> "Panic", ctx |-> <<>>, err |-> ""]
DcIdle ==
    [called |-> FALSE, user_attributes |-> None, node_key |-> None, outcome |-> DcErr(""),
     buffers |-> {}]

\* mod.rs 39-42: the share keys of the context.
ContextShareKeys(self, user_attributes) ==
    IF IsSome(user_attributes)
    THEN extract_share_keys(self, Unwrap(user_attributes))
    ELSE Ok(EmptyMap)

\* mod.rs 38-65.  `?` on the share keys returns first; the unwrap of
\* String::from_utf8 panics while the context is being built.
decryption_context(self, user_attributes, node_key) ==
    LET share_keys == ContextShareKeys(self, user_attributes)
    IN  IF share_keys.kind = "Err" THEN DcErr(share_keys.err)
        ELSE IF IsSome(node_key) /\ ~IsValidUtf8(Unwrap(node_key)) THEN DcPanic
        ELSE DcOk([user_handle |-> self.user_handle,
                   user_master_key |-> self.master_key,
                   user_private_key |-> self.private_key,
                   node_key |-> IF IsSome(node_key)
                                THEN Some(DecodeUtf8(Unwrap(node_key))) ELSE None,
                   share_keys |-> share_keys.val])

(***************************************************************************)
(* The byte buffers that hold secrets during decryption_context: which     *)
(* secret, the type of the value that owns the buffer, and whether that    *)
(* value is moved into the returned context or dropped in the call         *)
(* (normally or while a panic unwinds).  A SecretBox, SecretString or      *)
(* SecretSlice zeroizes its buffer when dropped; a Vec<u8> or a HashMap of *)
(* Vec<u8> frees it as it is.                                              *)
(***************************************************************************)
WipesOnDrop(holder) == holder \in {"SecretBox", "SecretString", "SecretSlice"}

Buffer(secret, holder, fate) ==
    [secret |-> secret, holder |-> holder, fate |-> fate,
     wiped |-> fate = "dropped" /\ WipesOnDrop(holder)]

\* The node_key argument is cloned (line 58) and the original dropped when
\* the function is left.
HasBytes(node_key) == IsSome(node_key) /\ Len(Unwrap(node_key)) > 0
NodeKeyArgument(node_key) ==
    IF HasBytes(node_key) THEN {Buffer("node_key", "Vec<u8>", "dropped")} ELSE {}

\* Line 59 on a node key that is not UTF-8: unwrap panics, and its message
\* prints the FromUtf8Error with the bytes of the node key as text; the
\* String holding it leaves the call as the payload of the panic.
PanicMessage(node_key) ==
    IF IsSome(node_key) /\ ~IsValidUtf8(Unwrap(node_key))
    THEN {Buffer("node_key", "String", "panic payload")}
    ELSE {}

decryption_context_buffers(self, user_attributes, node_key) ==
    LET share_keys == ContextShareKeys(self, user_attributes)
        fate == IF IsSome(node_key) /\ ~IsValidUtf8(Unwrap(node_key))
                THEN "dropped" ELSE "returned"
    IN  IF share_keys.kind = "Err" THEN NodeKeyArgument(node_key)
        ELSE NodeKeyArgument(node_key)
             \cup {Buffer("user_handle", "SecretString", fate),
                   Buffer("user_master_key", "SecretBox", fate),
                   Buffer("user_private_key", "SecretBox", fate)}
             \cup (IF HasBytes(node_key)
                   THEN {Buffer("node_key",
                                IF fate = "returned" THEN "SecretString" ELSE "Vec<u8>",
                                fate)}
                   ELSE {})
             \cup PanicMessage(node_key)
             \cup (IF DOMAIN share_keys.val # {}
                   THEN {Buffer("share_keys",
                                IF fate = "returned" THEN "SecretSlice"
                                ELSE "HashMap<String, Vec<u8>>",
                                fate)}
                   ELSE {})

DecryptionContextCall(user_attributes, node_key) ==
    /\ ~dc.called
    /\ IsSome(session)
    /\ dc' = [called |-> TRUE, user_attributes |-> user_attributes, node_key |-> node_key,
              outcome |-> decryption_context(Unwrap(session), user_attributes, node_key),
              buffers |-> decryption_context_buffers(Unwrap(session), user_attributes,
                                                     node_key)]
    /\ UNCHANGED <<client_state, call_state>>

(***************************************************************************)
(* send_requests, call p.  A call runs from one await to the next in one   *)
(* step: pc names the await it is suspended at ("sleep": line 57, "solve": *)
(* lines 66-70, "send": lines 85/87, "read": line 127), or tells that it   *)
(* has not been polled yet ("idle"), has returned ("done"), has panicked   *)
(* ("panicked") or was dropped by its caller ("cancelled").                *)
(***************************************************************************)
Suspended == {"sleep", "solve", "send", "read"}

\* The locals of call p.
Local(p) ==
    [pc |-> pc[p], attempt |-> attempt[p], delay |-> delay[p],
     hashcash_challenge |-> hashcash_challenge[p], slept |-> slept[p],
     log |-> log[p], result |-> result[p]]

Set(p, l) ==
    /\ pc' = [pc EXCEPT ![p] = l.pc]
    /\ attempt' = [attempt EXCEPT ![p] = l.attempt]
    /\ delay' = [delay EXCEPT ![p] = l.delay]
    /\ hashcash_challenge' = [hashcash_challenge EXCEPT ![p] = l.hashcash_challenge]
    /\ slept' = [slept EXCEPT ![p] = l.slept]
    /\ log' = [log EXCEPT ![p] = l.log]
    /\ result' = [result EXCEPT ![p] = l.result]

\* Lines 79-87: serialize the batch and send it; the call waits for the
\* reply.
Dispatch(l, proof, reqs, u) ==
    IF to_string(reqs).kind = "Err"
    THEN [l EXCEPT !.pc = "panicked", !.result = Panic]
    ELSE [l EXCEPT !.pc = "send",
                   !.log = Append(@, [sleep |-> l.slept, hashcash |-> proof, url |-> u,
                                      body |-> to_string(reqs).val, outcome |-> InFlight])]

\* Lines 61-87, once the sleep, if any, is over: a pending challenge goes to
\* the worker, otherwise the request is sent.
AfterSleep(l, reqs, u) ==
    IF IsSome(l.hashcash_challenge) THEN [l EXCEPT !.pc = "solve"]
    ELSE Dispatch(l, None, reqs, u)

\* Lines 54-87 and 161-162: the loop taking the value att, up to the first
\* await it reaches, or the return after the loop.
Iteration(l, att, maxr, reqs, u) ==
    IF ~InRange(att, maxr)
    THEN [l EXCEPT !.attempt = att, !.pc = "done", !.result = ExhaustedResult]
    ELSE LET head == [l EXCEPT !.attempt = att, !.slept = None]
         IN  IF Sleeps(att, l.hashcash_challenge) THEN [head EXCEPT !.pc = "sleep"]
             ELSE AfterSleep(head, reqs, u)

\* What follows the classification c of a reply.
Proceed(l, c, maxr, reqs, u) ==
    IF c.next = "continue" THEN Iteration(l, Advance(l.attempt, c.challenge), maxr, reqs, u)
    ELSE IF c.next = "read" THEN [l EXCEPT !.pc = "read"]
    ELSE [l EXCEPT !.pc = "done", !.result = c.result]

\* reqwest.rs 32-87: the first poll builds the URL (taking the id) and runs
\* up to the first await.
Start(p) ==
    /\ pc[p] = "idle"
    /\ LET joined == Join(origin, CsPath)
       IN  IF joined.kind = "Err"
           THEN /\ Set(p, [Local(p) EXCEPT !.pc = "done", !.result = joined])
                /\ UNCHANGED <<id_counter, url>>
           ELSE LET u == BuildUrl(joined.val, id_counter, session, query_params[p])
                    l == [Local(p) EXCEPT !.delay = min_retry_delay,
                                          !.hashcash_challenge = None]
                IN  /\ id_counter' = FetchAdd(id_counter)
                    /\ url' = [url EXCEPT ![p] = u]
                    /\ Set(p, Iteration(l, 1, max_retries, requests[p], u))
    /\ UNCHANGED <<origin, max_retries, min_retry_delay, max_retry_delay, timeout, session,
                   requests, query_params, dc>>

\* Lines 57-87: the sleep is over; the delay doubles.
WakeUp(p) ==
    /\ pc[p] = "sleep"
    /\ LET l == [Local(p) EXCEPT !.slept = Some(delay[p]),
                                 !.delay = NextDelay(delay[p], max_retry_delay)]
       IN  Set(p, AfterSleep(l, requests[p], url[p]))
    /\ UNCHANGED <<client_state, requests, query_params, url, dc>>

\* Lines 66-87: the worker is back, with stamp w or with a JoinError, on
\* which expect panics.
Solved(p, w) ==
    /\ pc[p] = "solve"
    /\ IF w.kind = "JoinError"
       THEN Set(p, [Local(p) EXCEPT !.pc = "panicked", !.result = Panic])
       ELSE LET l == [Local(p) EXCEPT !.hashcash_challenge = AfterAttach(@)]
            IN  Set(p, Dispatch(l, ProofHeader(hashcash_challenge[p], w.stamp),
                                requests[p], url[p]))
    /\ UNCHANGED <<client_state, requests, query_params, url, dc>>

Solve(p) ==
    /\ pc[p] = "solve"
    /\ \E w \in spawn_blocking(Unwrap(hashcash_challenge[p])[1],
                                Unwrap(hashcash_challenge[p])[2]) : Solved(p, w)

\* Lines 84-136: request_fut resolves with o.
Received(p, o) ==
    /\ pc[p] = "send"
    /\ LET c == OnResponse(o)
           seen == IF c.next = "read" THEN [o EXCEPT !.read = "pending"] ELSE o
           l == [Local(p) EXCEPT !.log[Len(log[p])].outcome = seen,
                                 !.hashcash_challenge =
                                     IF IsSome(c.challenge) THEN c.challenge ELSE @]
       IN  Set(p, Proceed(l, c, max_retries, requests[p], url[p]))
    /\ UNCHANGED <<client_state, requests, query_params, url, dc>>

Receive(p) == \E o \in Outcomes(timeout) : Received(p, o)

\* Lines 127-158: ok.bytes() resolves with r.
BodyArrived(p, r) ==
    /\ pc[p] = "read"
    /\ LET c == OnRead(r, requests[p])
           l == [Local(p) EXCEPT !.log[Len(log[p])].outcome.read =
                                     IF r.ok THEN "done" ELSE "failed",
                                 !.log[Len(log[p])].outcome.body = r.body]
       IN  Set(p, Proceed(l, c, max_retries, requests[p], url[p]))
    /\ UNCHANGED <<client_state, requests, query_params, url, dc>>

ReadBody(p) == \E r \in Reads : BodyArrived(p, r)

\* The caller drops the future while the call is suspended: the call never
\* runs again.
Drop(p) ==
    /\ pc[p] \in Suspended
    /\ pc' = [pc EXCEPT ![p] = "cancelled"]
    /\ UNCHANGED <<client_state, requests, query_params, url, attempt, delay,
                   hashcash_challenge, slept, log, result, dc>>

\* The steps of the call whose await is known to complete: the first poll,
\* the timer of line 57, the worker of lines 66-70 and, under a timeout, the
\* race of line 85.  ok.bytes() (line 127) is under no timeout.
Completes(p) == Start(p) \/ WakeUp(p) \/ Solve(p) \/ Receive(p)

(***************************************************************************)
(* Specifications.                                                         *)
(***************************************************************************)
DelayConfigs == {<<1, 4>>, <<3, 2>>}
Batches == SeqsUpTo(RequestKinds, MaxReqs)

InitCalls ==
    /\ pc = [p \in Calls |-> "idle"]
    /\ url = [p \in Calls |-> NoUrl]
    /\ attempt = [p \in Calls |-> 0]
    /\ delay = [p \in Calls |-> 0]
    /\ hashcash_challenge = [p \in Calls |-> None]
    /\ slept = [p \in Calls |-> None]
    /\ log = [p \in Calls |-> <<>>]
    /\ result = [p \in Calls |-> Pending]

\* One send_requests call of a logged-in client, over every retry policy,
\* every batch and every reply of the server.
InitWith(origins) ==
    /\ origin \in origins
    /\ id_counter = 0
    /\ max_retries \in 0..MaxRetries
    /\ \E d \in DelayConfigs : min_retry_delay = d[1] /\ max_retry_delay = d[2]
    /\ timeout \in {None, Some(30)}
    /\ session = Some(UserSession(None))
    /\ \E reqs \in Batches : requests = [p \in Calls |-> IF p = 1 THEN reqs ELSE <<>>]
    /\ query_params = [p \in Calls |-> <<>>]
    /\ InitCalls
    /\ dc = DcIdle

Init == InitWith({DefaultOrigin, OpaqueOrigin})

Next ==
    \/ Start(1)
    \/ WakeUp(1)
    \/ Solve(1)
    \/ Receive(1)
    \/ ReadBody(1)
    \/ Drop(1)

Spec == Init /\ [][Next]_vars

\* The same call, with one request and a timeout, also on file: origins
\* with a drive letter, a host or both, under the scheduling the runtime
\* gives it: the call is polled, its sleeps and solves complete, and each
\* send is over when the reply is there or the timeout has elapsed.  Nothing
\* bounds the read of the body, which may never complete.
InitFair ==
    /\ InitWith({DefaultOrigin, FileOrigin, FileHostOrigin, FileShareOrigin})
    /\ timeout = Some(30)
    /\ requests[1] = <<"ReqA">>

FairSpec == InitFair /\ [][Next]_vars /\ WF_vars(Completes(1))

\* Several calls sharing one ClientState, interleaved at their awaits: an
\* origin with a path, a query and a fragment, with and without a session,
\* at most one caller adding query pairs of its own, and a server that fails
\* to answer, sends a challenge or answers with one result.
MaxRetriesConc == 2
ConcOutcomes == {NetworkError, Response(402, ChallengeHeader("tokA", 1)), Response(200, NoHeader)}
ConcReads == {ReadFailure, BodyRead(JArr(<<"valA">>))}

InitConc ==
    /\ origin = PathOrigin
    /\ id_counter = 0
    /\ max_retries \in 0..MaxRetriesConc
    /\ min_retry_delay = 1 /\ max_retry_delay = 2
    /\ timeout = None
    /\ session \in LoopSessions
    /\ requests = [p \in Calls |-> <<"ReqA">>]
    /\ \E q \in Calls, qp \in QueryParams :
          query_params = [p \in Calls |-> IF p = q THEN qp ELSE <<>>]
    /\ InitCalls
    /\ dc = DcIdle

ReceiveConc(p) == \E o \in ConcOutcomes : Received(p, o)
ReadBodyConc(p) == \E r \in ConcReads : BodyArrived(p, r)

NextConc ==
    \E p \in Calls :
        \/ Start(p)
        \/ WakeUp(p)
        \/ Solve(p)
        \/ ReceiveConc(p)
        \/ ReadBodyConc(p)
        \/ Drop(p)

SpecConc == InitConc /\ [][NextConc]_vars

\* decryption_context on a logged-in session, over every cached share-key
\* vector, user-attributes payload and node key.
CachedShareKeys == {None} \cup {Some(k) : k \in SeqsUpTo(ShareKeys, MaxShareKeys)}

InitDC ==
    /\ origin = DefaultOrigin
    /\ id_counter = 0
    /\ max_retries = 1
    /\ min_retry_delay = 1 /\ max_retry_delay = 2
    /\ timeout = None
    /\ session \in {Some(UserSession(c)) : c \in CachedShareKeys}
    /\ requests = [p \in Calls |-> <<>>]
    /\ query_params = [p \in Calls |-> <<>>]
    /\ InitCalls
    /\ dc = DcIdle

NextDC == \E ua \in UserAttributes, nk \in NodeKeys : DecryptionContextCall(ua, nk)

SpecDC == InitDC /\ [][NextDC]_vars

(***************************************************************************)
(* Properties.                                                             *)
(***************************************************************************)
Last(seq) == seq[Len(seq)]
Returned(p) == pc[p] = "done"

IsPaymentRequired(o) == o.kind = "Response" /\ o.status = 402
HasChallenge(o) == o.header.present /\ o.header.wellformed
IsBody(o) == o.kind = "Response" /\ o.status = 200 /\ o.read = "done"
IsBareCode(o) == IsBody(o) /\ o.body.t = "int" /\ o.body.n \in ErrorCodes
IsEagain(o) == IsBareCode(o) /\ o.body.n = -3
IsArray(o) == IsBody(o) /\ o.body.t = "arr"
IsRetryable(o) ==
    \/ o.kind \in {"NetworkError", "Timeout"}
    \/ IsPaymentRequired(o) /\ HasChallenge(o)
    \/ o.kind = "Response" /\ o.status \in {409, 500}
    \/ IsEagain(o)

\* C1: whenever send_requests returns success, the response list is as long
\* as the request list and response i is request i's interpretation of
\* result i of the server's array.
C1_ResponsesMatchRequests ==
    \A p \in Calls :
        (Returned(p) /\ result[p].kind = "Ok") =>
            /\ Len(result[p].val) = Len(requests[p])
            /\ \A i \in 1..Len(requests[p]) :
                  result[p].val[i] =
                      [request |-> requests[p][i], data |-> Last(log[p]).outcome.body.a[i]]

\* C2 as stated: the ids that concurrent calls take from id_counter are
\* pairwise distinct, and no two calls ever send the same id query
\* parameter.
C2_NoSharedIdParameter ==
    \A p, q \in Calls :
        (p # q /\ pc[p] # "idle" /\ pc[q] # "idle") =>
            /\ TakenId(url[p]) # TakenId(url[q])
            /\ \A i \in 1..Len(log[p]), j \in 1..Len(log[q]) :
                  IdParams(log[p][i].url) \cap IdParams(log[q][j].url) = {}

\* C2 amended: the ids that concurrent calls take from id_counter are
\* pairwise distinct in every interleaving, so the id parameter the engine
\* itself puts on the URL (the first one) is never the same for two calls;
\* the caller's own pairs come after it, unchecked.
C2_TakenIdsPairwiseDistinct ==
    \A p, q \in Calls :
        (p # q /\ pc[p] # "idle" /\ pc[q] # "idle") =>
            /\ TakenId(url[p]) # TakenId(url[q])
            /\ \A i \in 1..Len(log[p]), j \in 1..Len(log[q]) :
                  TakenId(log[p][i].url) # TakenId(log[q][j].url)
            /\ \A i \in 1..Len(log[p]) : TakenId(log[p][i].url) = TakenId(url[p])

\* Two calls with a request in flight at the same time, the later one
\* carrying an id pair of its caller that repeats the id of the earlier.
C2_Witness ==
    \E p, q \in Calls :
        /\ p # q
        /\ pc[p] = "send" /\ pc[q] = "send"
        /\ TakenId(url[p]) = "0" /\ TakenId(url[q]) = "1"
        /\ IdParams(log[q][1].url) = {"0", "1"}

\* C3: a payment-required reply with a well-formed challenge (t, e) on the
\* first attempt and a result array on the second: exactly two attempts are
\* made, the first without x-hashcash, the second with "1:<t>:<stamp>" for
\* the stamp of (t, e), and the call returns success when the requests
\* accept the results paired with them.
C3_ChallengeThenArray ==
    \A p \in Calls :
        (/\ Len(log[p]) >= 2
         /\ IsPaymentRequired(log[p][1].outcome) /\ HasChallenge(log[p][1].outcome)
         /\ IsArray(log[p][2].outcome)) =>
            LET t == log[p][1].outcome.header.token
                e == log[p][1].outcome.header.easiness
                a == log[p][2].outcome.body.a
            IN  /\ Len(log[p]) = 2
                /\ Returned(p)
                /\ log[p][1].hashcash = None
                /\ log[p][2].hashcash = Some("1:" \o t \o ":" \o gencash(t, e))
                /\ (\A i \in 1..Min(Len(requests[p]), Len(a)) : Accepts(requests[p][i], a[i]))
                      => result[p].kind = "Ok"

C3_Witness ==
    \E p \in Calls :
        /\ Returned(p) /\ Len(log[p]) = 2
        /\ IsPaymentRequired(log[p][1].outcome) /\ HasChallenge(log[p][1].outcome)
        /\ log[p][1].outcome.header.token = "tokB"
        /\ IsArray(log[p][2].outcome)
        /\ log[p][2].hashcash = Some("1:tokB:stamp(tokB,2)")
        /\ result[p].kind = "Ok" /\ Len(result[p].val) = 1

\* C4: on any attempt, a payment-required reply whose challenge header is
\* missing or unparseable ends the call at that attempt with
\* MaxRetriesReached: nothing is dispatched and no sleep is taken after it.
C4_NoChallengeFailsAtOnce ==
    \A p \in Calls : \A i \in 1..Len(log[p]) :
        (IsPaymentRequired(log[p][i].outcome) /\ ~HasChallenge(log[p][i].outcome)) =>
            /\ i = Len(log[p])
            /\ Returned(p)
            /\ result[p] = MaxRetriesReached

C4_Witness ==
    \E p \in Calls :
        /\ Returned(p) /\ Len(log[p]) = 2 /\ max_retries = 3
        /\ IsPaymentRequired(log[p][2].outcome)
        /\ log[p][2].outcome.header.present /\ ~log[p][2].outcome.header.wellformed
        /\ result[p] = MaxRetriesReached

\* C5: when every attempt is answered with the bare EAGAIN code, and
\* max_retries >= 1, the call dispatches exactly max_retries attempts and
\* fails with MaxRetriesReached.
C5_AlwaysEagainExhausts ==
    \A p \in Calls :
        (/\ Returned(p)
         /\ max_retries >= 1
         /\ Join(origin, CsPath).kind = "Ok"
         /\ \A i \in 1..Len(log[p]) : IsEagain(log[p][i].outcome)) =>
            /\ Len(log[p]) = max_retries
            /\ result[p] = MaxRetriesReached

C5_Witness ==
    \E p \in Calls :
        /\ Returned(p) /\ max_retries = 3 /\ Len(log[p]) = 3
        /\ \A i \in 1..3 : IsEagain(log[p][i].outcome)
        /\ result[p] = MaxRetriesReached

\* C6: every backoff sleep lasts at most max_retry_delay and the sleeps of
\* one call are non-decreasing, for every configuration of ClientState.
C6_BackoffCappedAndMonotone ==
    \A p \in Calls : \A i \in 1..Len(log[p]) :
        IsSome(log[p][i].sleep) =>
            /\ Unwrap(log[p][i].sleep) <= max_retry_delay
            /\ \A j \in 1..(i - 1) :
                  IsSome(log[p][j].sleep) => Unwrap(log[p][j].sleep) <= Unwrap(log[p][i].sleep)

\* C7: a success-status body that is a bare application code never makes
\* the call succeed: after EAGAIN the engine goes on to the next attempt
\* (or, with none left, to MaxRetriesReached); any other code, OK included,
\* ends the call at once with an error carrying that code.
C7_BareCodeNeverSucceeds ==
    \A p \in Calls : \A i \in 1..Len(log[p]) :
        IsBareCode(log[p][i].outcome) =>
            IF log[p][i].outcome.body.n = -3
            THEN \/ i < Len(log[p])
                 \/ ~Returned(p) /\ attempt[p] = i + 1
                 \/ Returned(p) /\ i = max_retries /\ result[p] = MaxRetriesReached
            ELSE /\ i = Len(log[p])
                 /\ Returned(p)
                 /\ result[p].kind = "Err"
                 /\ result[p].err = "MegaError"
                 /\ result[p].code = log[p][i].outcome.body.n

C7_Witness ==
    \E p \in Calls :
        /\ Returned(p) /\ Len(log[p]) = 2 /\ max_retries = 3
        /\ IsEagain(log[p][1].outcome)
        /\ IsBareCode(log[p][2].outcome) /\ log[p][2].outcome.body.n = 0
        /\ result[p].kind = "Err" /\ result[p].code = 0

\* C8: decryption_context on a session whose cached share keys are
\* {A -> k1}, without user attributes, returns a context whose share-key
\* mapping is exactly {A -> k1}.
C8_CachedShareKeysCarried ==
    (/\ dc.called
     /\ Unwrap(session).share_keys = Some(<<ShareKey("A", "k1")>>)
     /\ dc.user_attributes = None
     /\ (IsSome(dc.node_key) => IsValidUtf8(Unwrap(dc.node_key)))) =>
        /\ dc.outcome.kind = "Ok"
        /\ DOMAIN dc.outcome.ctx.share_keys = {"A"}
        /\ dc.outcome.ctx.share_keys["A"] = "k1"

\* C9: decryption_context with a node key that is not well-formed UTF-8
\* returns an error value: it neither panics nor returns a context.
C9_BadNodeKeyIsAnError ==
    (/\ dc.called
     /\ IsSome(dc.node_key)
     /\ ~IsValidUtf8(Unwrap(dc.node_key))) =>
        dc.outcome.kind = "Err"

\* C10: every send_requests call whose dispatches, sleeps and proof-of-work
\* solves complete (it is not dropped by its caller and the worker comes
\* back with a stamp) eventually returns, with a response list or a typed
\* error; when all max_retries attempts ended in a retryable outcome it
\* returns MaxRetriesReached.  The call panics only when the worker failed.
C10_ReturnsValueOrTypedError ==
    /\ [](\A p \in Calls :
            /\ Returned(p) =>
                  /\ result[p].kind \in {"Ok", "Err"}
                  /\ (/\ Join(origin, CsPath).kind = "Ok"
                      /\ Len(log[p]) = max_retries
                      /\ \A i \in 1..Len(log[p]) : IsRetryable(log[p][i].outcome))
                        => result[p] = MaxRetriesReached
            /\ pc[p] = "panicked" => IsSome(hashcash_challenge[p]))
    /\ ((pc[1] \in Suspended) ~> (pc[1] \in {"done", "cancelled", "panicked"}))

\* What does hold: the call returns once the body reads complete as well,
\* and the only await a call stays at for ever is the read of a body.
C10_ReturnsWhenBodiesArrive ==
    WF_vars(ReadBody(1)) =>
        ((pc[1] \in Suspended) ~> (pc[1] \in {"done", "cancelled", "panicked"}))

C10_HangsOnlyAtBodyRead ==
    (pc[1] \in Suspended \ {"read"}) ~> (pc[1] \in {"read", "done", "cancelled", "panicked"})

IsChallenge(o) == IsPaymentRequired(o) /\ HasChallenge(o)

\* C12: the dispatches of one call never outnumber max_retries, whatever
\* the outcomes; an attempt that answers a proof-of-work challenge is
\* counted like any other.
C12_DispatchesWithinBudget ==
    \A p \in Calls :
        /\ Len(log[p]) <= max_retries
        /\ pc[p] \in {"send", "read"} => attempt[p] = Len(log[p])
        /\ pc[p] \in {"sleep", "solve"} => attempt[p] = Len(log[p]) + 1

C12_Witness ==
    \E p \in Calls :
        /\ Returned(p) /\ max_retries = 3 /\ Len(log[p]) = 3
        /\ IsChallenge(log[p][1].outcome)
        /\ IsSome(log[p][2].hashcash) /\ IsChallenge(log[p][2].outcome)
        /\ IsSome(log[p][3].hashcash)

\* C13: an attempt is preceded by a backoff sleep exactly when it is not
\* the first and no challenge is pending at its start, that is, when the
\* attempt before it did not receive a payment-required reply with a valid
\* challenge.
C13_SleepIffRetryWithoutChallenge ==
    \A p \in Calls : \A i \in 1..Len(log[p]) :
        IsSome(log[p][i].sleep) <=> (i > 1 /\ ~IsChallenge(log[p][i - 1].outcome))

C13_Witness ==
    \E p \in Calls :
        /\ Len(log[p]) = 3
        /\ log[p][1].sleep = None
        /\ IsChallenge(log[p][1].outcome)
        /\ log[p][2].sleep = None
        /\ log[p][2].outcome.kind = "NetworkError"
        /\ IsSome(log[p][3].sleep)

\* The call did not end at attempt i: it went on to attempt i + 1, or, with
\* the budget used up, to MaxRetriesReached.
WentOn(p, i) ==
    \/ i < Len(log[p])
    \/ ~Returned(p) /\ attempt[p] = i + 1
    \/ Returned(p) /\ i = max_retries /\ result[p] = MaxRetriesReached

\* C14: a network failure, a timeout or any non-success status other than
\* payment-required never ends the call at that attempt: once its outcome
\* is known, the call goes on to the next attempt or, the budget used up,
\* returns MaxRetriesReached.
C14_NonSuccessIsRetried ==
    \A p \in Calls : \A i \in 1..Len(log[p]) :
        LET o == log[p][i].outcome
        IN  (\/ o.kind \in {"NetworkError", "Timeout"}
             \/ /\ o.kind = "Response" /\ o.status \notin 200..299 /\ o.status # 402
                /\ o.read # "pending")
                => WentOn(p, i)

\* C15: a success-status body that is neither a bare application code nor
\* an array ends the call at that attempt with the parse error, also when
\* attempts remain.
C15_UnparseableBodyFailsAtOnce ==
    \A p \in Calls : \A i \in 1..Len(log[p]) :
        (/\ IsBody(log[p][i].outcome)
         /\ ~IsBareCode(log[p][i].outcome)
         /\ ~IsArray(log[p][i].outcome)) =>
            /\ i = Len(log[p])
            /\ Returned(p)
            /\ result[p] = Err("Json", 0)

C15_Witness ==
    \E p \in Calls :
        /\ Returned(p) /\ max_retries = 3 /\ Len(log[p]) = 1
        /\ IsBody(log[p][1].outcome) /\ log[p][1].outcome.body.t = "other"
        /\ result[p] = Err("Json", 0)

\* C16: for each of the statuses 402 and 409, a reply with that status and
\* a parseable x-hashcash header is a proof-of-work challenge: it is not
\* handled as an ordinary retryable error, and the next attempt carries
\* x-hashcash "1:<token>:<stamp>" without a backoff sleep before it.
C16_BothStatusesAreChallenges ==
    \A p \in Calls : \A i \in 1..Len(log[p]) :
        LET o == log[p][i].outcome
        IN  (/\ o.kind = "Response" /\ o.status \in {402, 409} /\ HasChallenge(o)
             /\ i < Len(log[p])) =>
                /\ log[p][i + 1].sleep = None
                /\ log[p][i + 1].hashcash =
                      Some("1:" \o o.header.token \o ":"
                               \o gencash(o.header.token, o.header.easiness))

\* What a step leaves alone in ClientState, id_counter apart.
ConfigUnchanged ==
    UNCHANGED <<origin, max_retries, min_retry_delay, max_retry_delay, timeout, session>>

SameIdOnEveryAttempt ==
    \A p \in Calls : \A i \in 1..Len(log[p]) : log[p][i].url = url[p]

\* C17 as stated: every call advances id_counter by exactly one, before its
\* first attempt and whatever its outcome; every attempt carries that id;
\* nothing else of ClientState changes.
C17_EveryCallTakesOneId ==
    /\ [][/\ ConfigUnchanged
          /\ IF \E p \in Calls : pc[p] = "idle" /\ pc'[p] # "idle"
             THEN id_counter' = id_counter + 1
             ELSE id_counter' = id_counter]_vars
    /\ []SameIdOnEveryAttempt
    /\ [](\A p \in Calls : pc[p] = "idle" => Len(log[p]) = 0)

\* C17 amended: every call whose URL can be built (origin.join("/cs")
\* succeeds) advances id_counter by exactly one, before its first attempt
\* and whatever its outcome; every attempt carries that id; a call that
\* fails at origin.join leaves id_counter as it was; nothing else of
\* ClientState changes.
C17_CallWithUrlTakesOneId ==
    /\ [][/\ ConfigUnchanged
          /\ IF \E p \in Calls : pc[p] = "idle" /\ pc'[p] # "idle"
             THEN id_counter' = IF origin.cannot_be_a_base
                                THEN id_counter ELSE id_counter + 1
             ELSE id_counter' = id_counter]_vars
    /\ []SameIdOnEveryAttempt
    /\ [](\A p \in Calls : pc[p] = "idle" => Len(log[p]) = 0)

C17_Witness ==
    \E p \in Calls :
        /\ Returned(p) /\ Len(log[p]) = 3
        /\ IsChallenge(log[p][1].outcome) /\ IsSome(log[p][2].hashcash)
        /\ id_counter = 1
        /\ \A i \in 1..3 : TakenId(log[p][i].url) = "0"

C17_WitnessNoAttempt ==
    \E p \in Calls : Returned(p) /\ max_retries = 0 /\ Len(log[p]) = 0 /\ id_counter = 1

\* C18: when every attempt is answered with a payment-required reply
\* carrying a valid challenge, the call dispatches exactly max_retries
\* attempts, never sleeps, answers every challenge but the last and fails
\* with MaxRetriesReached; with max_retries = 1 no proof is ever sent.
C18_AlwaysChallengedExhausts ==
    \A p \in Calls :
        (/\ Returned(p)
         /\ ~origin.cannot_be_a_base
         /\ \A i \in 1..Len(log[p]) : IsChallenge(log[p][i].outcome)) =>
            /\ Len(log[p]) = max_retries
            /\ result[p] = MaxRetriesReached
            /\ \A i \in 1..Len(log[p]) :
                  /\ log[p][i].sleep = None
                  /\ IsSome(log[p][i].hashcash) <=> i > 1
            /\ max_retries >= 1 =>
                  hashcash_challenge[p] =
                      Some(<<Last(log[p]).outcome.header.token,
                             Last(log[p]).outcome.header.easiness>>)

C18_Witness ==
    \E p \in Calls :
        /\ Returned(p) /\ max_retries = 3 /\ Len(log[p]) = 3
        /\ \A i \in 1..3 : IsChallenge(log[p][i].outcome)
        /\ hashcash_challenge[p] = Some(<<"tokB", 2>>)
        /\ result[p] = MaxRetriesReached

C18_WitnessOneAttempt ==
    \E p \in Calls :
        /\ Returned(p) /\ max_retries = 1 /\ Len(log[p]) = 1
        /\ IsChallenge(log[p][1].outcome) /\ log[p][1].hashcash = None
        /\ result[p] = MaxRetriesReached

\* The proof-carrying attempt failed in a way the loop retries.
IsRetriedFailure(o) ==
    \/ o.kind \in {"NetworkError", "Timeout"}
    \/ o.kind = "Response" /\ o.status \in 400..599 /\ o.status # 402
    \/ IsEagain(o)

\* C19: an attempt carries an x-hashcash proof exactly when the attempt
\* just before it received a payment-required reply with a valid challenge,
\* and the proof is for that challenge; no challenge is pending while a
\* request is out, so a challenge is answered at most once: when the
\* proof-carrying attempt fails, the next attempt is preceded by a backoff
\* sleep and carries no proof.
C19_ProofAnswersPreviousChallenge ==
    \A p \in Calls : \A i \in 1..Len(log[p]) :
        /\ pc[p] \in {"send", "read"} => hashcash_challenge[p] = None
        /\ IsSome(log[p][i].hashcash) <=> (i > 1 /\ IsChallenge(log[p][i - 1].outcome))
        /\ IsSome(log[p][i].hashcash) =>
              LET h == log[p][i - 1].outcome.header
              IN  log[p][i].hashcash =
                      Some("1:" \o h.token \o ":" \o gencash(h.token, h.easiness))
        /\ (IsSome(log[p][i].hashcash) /\ IsRetriedFailure(log[p][i].outcome)) =>
              /\ hashcash_challenge[p] = None \/ i < Len(log[p])
              /\ i < Len(log[p]) =>
                    /\ IsSome(log[p][i + 1].sleep)
                    /\ log[p][i + 1].hashcash = None

C19_Witness ==
    \E p \in Calls :
        /\ Len(log[p]) = 3
        /\ IsChallenge(log[p][1].outcome)
        /\ log[p][2].hashcash = Some("1:tokA:stamp(tokA,1)")
        /\ IsEagain(log[p][2].outcome)
        /\ IsSome(log[p][3].sleep)
        /\ log[p][3].hashcash = None

\* C20: a network failure while reading the body of a success-status reply
\* ends the call at that attempt with that error, although attempts remain;
\* a network failure while sending the request does not end it.
C20_BodyReadFailureIsTerminal ==
    \A p \in Calls : \A i \in 1..Len(log[p]) :
        LET o == log[p][i].outcome
        IN  /\ (o.kind = "Response" /\ o.status = 200 /\ o.read = "failed") =>
                  /\ i = Len(log[p])
                  /\ Returned(p)
                  /\ result[p] = Err("Reqwest", 0)
            /\ o.kind = "NetworkError" => WentOn(p, i)

C20_Witness ==
    \E p \in Calls :
        /\ Returned(p) /\ max_retries = 3 /\ Len(log[p]) = 2
        /\ log[p][1].outcome.kind = "NetworkError"
        /\ log[p][2].outcome.kind = "Response" /\ log[p][2].outcome.status = 200
        /\ log[p][2].outcome.read = "failed"
        /\ result[p] = Err("Reqwest", 0)

\* C11: every buffer holding a secret of the session or of the context is
\* overwritten when the value holding it is discarded, whether
\* decryption_context succeeded or failed.
C11_SecretsWipedWhenDiscarded ==
    dc.called => \A b \in dc.buffers : b.fate = "dropped" => b.wiped

====
